---- MODULE Spec2Model ----
(***************************************************************************)
(* dnscheckip: a UDP responder that answers the query "my.ip4.live. A/ANY  *)
(* IN" with the address of the client.  The model follows dnscheckip.py:   *)
(* the byte and bit codecs (readbytes, readbits, writebytes, writebits),   *)
(* the parser (parse_question, parse_msg), the five response builders and  *)
(* DNSCheckIPHandler.handle, taken one statement group at a time.          *)
(*                                                                         *)
(* Bytes are naturals 0..255, a datagram is a sequence of bytes, a text    *)
(* string (the client's host) is a sequence of ASCII codes.                *)
(***************************************************************************)
EXTENDS Naturals, Sequences, FiniteSets, TLC

VARIABLES
    pc,         \* position of the handler inside handle()
    msg_buf,    \* self.request[0]: the received datagram
    client,     \* self.client_address: [host, port]
    msg_io,     \* read position of BytesIO(msg_buf)
    header,     \* parse_msg: the decoded header
    questions,  \* parse_msg: the questions decoded so far
    qcurr,      \* parse_msg: iterations of the question loop done
    msg,        \* handle: the Message parse_msg returned
    variant,    \* handle: which branch of the if/elif chain built resp
    resp,       \* handle: the response Message
    resp_buf,   \* handle: the response bytes
    sent,       \* datagrams passed to socket.sendto by this call of handle
    log         \* history of finished requests (recorded by SpecSeq only)

vars == <<pc, msg_buf, client, msg_io, header, questions, qcurr, msg, variant,
          resp, resp_buf, sent, log>>

----------------------------------------------------------------------------
(* Arithmetic and sequence helpers                                         *)

Min(a, b) == IF a < b THEN a ELSE b

RECURSIVE Pow(_, _)
Pow(b, n) == IF n = 0 THEN 1 ELSE b * Pow(b, n - 1)

RECURSIVE Flatten(_)
Flatten(ss) == IF ss = <<>> THEN <<>> ELSE Head(ss) \o Flatten(Tail(ss))

RECURSIVE SumSeq(_)
SumSeq(s) == IF s = <<>> THEN 0 ELSE Head(s) + SumSeq(Tail(s))

\* big-endian value of a sequence of digits in the given base
RECURSIVE FromDigits(_, _)
FromDigits(ds, base) ==
    IF ds = <<>> THEN 0
    ELSE base * FromDigits(SubSeq(ds, 1, Len(ds) - 1), base) + ds[Len(ds)]

\* the w digits of v in the given base, most significant first
ToDigits(v, w, base) == [i \in 1..w |-> (v \div Pow(base, w - i)) % base]

\* the parts of a dotted text between the dots (ASCII 46)
RECURSIVE SplitDots(_, _)
SplitDots(s, part) ==
    IF s = <<>> THEN <<part>>
    ELSE IF Head(s) = 46 THEN <<part>> \o SplitDots(Tail(s), <<>>)
    ELSE SplitDots(Tail(s), Append(part, Head(s)))

\* BytesIO.read(n) at position p: up to n bytes, fewer at the end of the buffer
Read(buf, p, n) == SubSeq(buf, p + 1, Min(p + n, Len(buf)))

----------------------------------------------------------------------------
(* struct: formats are sequences of items [code, len]; "B" "H" "I" are     *)
(* unsigned integers of 1, 2, 4 bytes in network order, "s" is a byte      *)
(* string of len bytes.                                                    *)

FmtB == <<[code |-> "B", len |-> 1]>>
FmtS(n) == <<[code |-> "s", len |-> n]>>
FmtHH == <<[code |-> "H", len |-> 2], [code |-> "H", len |-> 2]>>
FmtNB(n) == [i \in 1..n |-> [code |-> "B", len |-> 1]]
FmtHHIH4B == <<[code |-> "H", len |-> 2], [code |-> "H", len |-> 2],
               [code |-> "I", len |-> 4], [code |-> "H", len |-> 2]>> \o FmtNB(4)

struct_calcsize(fmt) == SumSeq([i \in 1..Len(fmt) |-> fmt[i].len])

\* byte offset of item i of fmt
struct_offset(fmt, i) == SumSeq([j \in 1..(i - 1) |-> fmt[j].len])

\* struct.unpack: [ok, val]; struct.error unless raw has exactly calcsize bytes
struct_unpack(fmt, raw) ==
    IF Len(raw) # struct_calcsize(fmt)
    THEN [ok |-> FALSE, val |-> <<>>]
    ELSE [ok |-> TRUE,
          val |-> [i \in 1..Len(fmt) |->
                     LET bytes == SubSeq(raw, struct_offset(fmt, i) + 1,
                                         struct_offset(fmt, i) + fmt[i].len)
                     IN  IF fmt[i].code = "s" THEN bytes
                         ELSE FromDigits(bytes, 256)]]

\* struct.pack: [ok, raw]; struct.error on a wrong argument count or an
\* integer outside the item's range
struct_pack(fmt, data) ==
    IF Len(data) # Len(fmt)
       \/ \E i \in 1..Len(fmt) : data[i] \div Pow(256, fmt[i].len - 1) >= 256
    THEN [ok |-> FALSE, raw |-> <<>>]
    ELSE [ok |-> TRUE,
          raw |-> Flatten([i \in 1..Len(fmt) |->
                             ToDigits(data[i], fmt[i].len, 256)])]

----------------------------------------------------------------------------
(* bitstruct: formats are sequences of items [code, bits]; "u" is an       *)
(* unsigned integer, "b" a boolean; fields are packed most significant     *)
(* bit first, with no padding between them.                                *)

U(n) == [code |-> "u", bits |-> n]
B1 == [code |-> "b", bits |-> 1]

\* mutant: the literal with z and rcode as 'u4u3'
ReadHeaderFmt_u4u3 == <<U(16), B1, U(4), B1, B1, B1, B1, U(4), U(3),
                        U(16), U(16), U(16), U(16)>>

\* 'u16 b1u4b1b1b1b1 u3u4 u16 u16 u16 u16', the literal given to readbits
ReadHeaderFmt == <<U(16), B1, U(4), B1, B1, B1, B1, U(3), U(4),
                   U(16), U(16), U(16), U(16)>>

\* 'u16 b1u4b1b1b1b1 u3u4 u16 u16 u16 u16', the literal given to writebits
WriteHeaderFmt == <<U(16), B1, U(4), B1, B1, B1, B1, U(3), U(4),
                    U(16), U(16), U(16), U(16)>>

bitstruct_calcsize(fmt) == SumSeq([i \in 1..Len(fmt) |-> fmt[i].bits])

bitstruct_offset(fmt, i) == SumSeq([j \in 1..(i - 1) |-> fmt[j].bits])

BytesToBits(raw) == Flatten([i \in 1..Len(raw) |-> ToDigits(raw[i], 8, 2)])

BitsToBytes(bits) ==
    [i \in 1..(Len(bits) \div 8) |-> FromDigits(SubSeq(bits, 8 * i - 7, 8 * i), 2)]

\* bitstruct.unpack: [ok, val]; bitstruct.Error when raw holds too few bits
bitstruct_unpack(fmt, raw) ==
    IF 8 * Len(raw) < bitstruct_calcsize(fmt)
    THEN [ok |-> FALSE, val |-> <<>>]
    ELSE LET bits == BytesToBits(raw)
         IN  [ok |-> TRUE,
              val |-> [i \in 1..Len(fmt) |->
                         LET n == FromDigits(
                                    SubSeq(bits, bitstruct_offset(fmt, i) + 1,
                                           bitstruct_offset(fmt, i) + fmt[i].bits), 2)
                         IN  IF fmt[i].code = "b" THEN n # 0 ELSE n]]

\* bitstruct.pack: [ok, raw]; bitstruct.Error on a missing argument or an
\* integer that does not fit its field
bitstruct_pack(fmt, data) ==
    IF Len(data) < Len(fmt)
       \/ \E i \in 1..Len(fmt) :
            fmt[i].code = "u" /\ data[i] >= Pow(2, fmt[i].bits)
    THEN [ok |-> FALSE, raw |-> <<>>]
    ELSE [ok |-> TRUE,
          raw |-> BitsToBytes(Flatten([i \in 1..Len(fmt) |->
                    IF fmt[i].code = "b"
                    THEN <<IF data[i] THEN 1 ELSE 0>>
                    ELSE ToDigits(data[i], fmt[i].bits, 2)]))]

----------------------------------------------------------------------------
(* readbytes / readbits / writebytes / writebits                           *)

\* mutant: a short read is padded with zero bytes instead of raising
readbytes_padded(fmt, buf, p) ==
    LET got == Read(buf, p, struct_calcsize(fmt))
        raw == got \o [i \in 1..(struct_calcsize(fmt) - Len(got)) |-> 0]
        u   == struct_unpack(fmt, raw)
    IN  [ok |-> u.ok, raw |-> raw, val |-> u.val, pos |-> p + Len(got)]

\* readbytes(fmt, msg_io): [ok, raw, val, pos]
readbytes(fmt, buf, p) ==
    LET raw == Read(buf, p, struct_calcsize(fmt))
        u   == struct_unpack(fmt, raw)
    IN  [ok |-> u.ok, raw |-> raw, val |-> u.val, pos |-> p + Len(raw)]

\* readbits(fmt, msg_io): [ok, raw, val, pos]
readbits(fmt, buf, p) ==
    LET raw == Read(buf, p, bitstruct_calcsize(fmt) \div 8)
        u   == bitstruct_unpack(fmt, raw)
    IN  [ok |-> u.ok, raw |-> raw, val |-> u.val, pos |-> p + Len(raw)]

writebytes(fmt, data) == struct_pack(fmt, data)

writebits(fmt, data) == bitstruct_pack(fmt, data)

----------------------------------------------------------------------------
(* Message model: the namedtuples Header, Question, ResourceRecord, Message *)

HeaderFields == <<"id", "qr", "opcode", "aa", "tc", "rd", "ra", "z", "rcode",
                  "qdcount", "ancount", "nscount", "arcount">>

\* Header(*val): the namedtuple built from the values in field order
Header(val) ==
    [id |-> val[1], qr |-> val[2], opcode |-> val[3], aa |-> val[4],
     tc |-> val[5], rd |-> val[6], ra |-> val[7], z |-> val[8],
     rcode |-> val[9], qdcount |-> val[10], ancount |-> val[11],
     nscount |-> val[12], arcount |-> val[13]]

\* *header: the namedtuple's values in field order
HeaderTuple(h) == [i \in 1..Len(HeaderFields) |-> h[HeaderFields[i]]]

Question(rawqname, qname, qtype, qclass) ==
    [rawqname |-> rawqname, qname |-> qname, qtype |-> qtype, qclass |-> qclass]

ResourceRecord(rawname, type, class_, ttl, rdlength, rdata) ==
    [rawname |-> rawname, type |-> type, class_ |-> class_, ttl |-> ttl,
     rdlength |-> rdlength, rdata |-> rdata]

Message(h, qs, as) == [header |-> h, questions |-> qs, answers |-> as]

\* values of the handler's locals before they are assigned
NoHeader == Header(<<0, FALSE, 0, FALSE, FALSE, FALSE, FALSE, 0, 0, 0, 0, 0, 0>>)
NoMessage == Message(NoHeader, <<>>, <<>>)
NoClient == [host |-> <<>>, port |-> 0]

----------------------------------------------------------------------------
(* parse_question: the label loop, then qtype and qclass                   *)

\* the while loop of parse_question from position p with the accumulated
\* rawqname and qname: [ok, pos, rawqname, qname]
RECURSIVE parse_labels(_, _, _, _)
parse_labels(buf, p, rawqname, qname) ==
    LET r == readbytes(FmtB, buf, p)
    IN  IF ~r.ok THEN [ok |-> FALSE, pos |-> r.pos, rawqname |-> rawqname,
                       qname |-> qname]
        ELSE IF r.val[1] = 0
        THEN [ok |-> TRUE, pos |-> r.pos, rawqname |-> rawqname \o r.raw,
              qname |-> qname]
        ELSE LET l == readbytes(FmtS(r.val[1]), buf, r.pos)
             IN  IF ~l.ok THEN [ok |-> FALSE, pos |-> l.pos,
                                rawqname |-> rawqname \o r.raw, qname |-> qname]
                 ELSE parse_labels(buf, l.pos, rawqname \o r.raw \o l.raw,
                                   qname \o l.val[1] \o <<46>>)

\* mutant: rawqname is rebuilt from the dotted qname instead of kept
parse_question_reencoded(buf, p) ==
    LET n == parse_labels(buf, p, <<>>, <<>>)
        t == readbytes(FmtHH, buf, n.pos)
        labels == IF n.qname = <<>> THEN <<>>
                  ELSE SplitDots(SubSeq(n.qname, 1, Len(n.qname) - 1), <<>>)
        rebuilt == Flatten([i \in 1..Len(labels) |-> <<Len(labels[i])>> \o labels[i]])
                     \o <<0>>
    IN  IF ~n.ok \/ ~t.ok
        THEN [ok |-> FALSE, pos |-> p, question |-> Question(<<>>, <<>>, 0, 0)]
        ELSE [ok |-> TRUE, pos |-> t.pos,
              question |-> Question(rebuilt, n.qname, t.val[1], t.val[2])]

\* parse_question(msg_io): [ok, pos, question]
parse_question(buf, p) ==
    LET n == parse_labels(buf, p, <<>>, <<>>)
        t == readbytes(FmtHH, buf, n.pos)
    IN  IF ~n.ok \/ ~t.ok
        THEN [ok |-> FALSE, pos |-> p, question |-> Question(<<>>, <<>>, 0, 0)]
        ELSE [ok |-> TRUE, pos |-> t.pos,
              question |-> Question(n.rawqname, n.qname, t.val[1], t.val[2])]

\* mutant: only the first question is parsed
question_loop_first_only(h) == Min(h.qdcount, 1)

\* range(header.qdcount): the number of iterations of parse_msg's loop
question_loop_count(h) == h.qdcount

----------------------------------------------------------------------------
(* The response builders                                                   *)

not_impl_resp(m) ==
    Message(Header(<<m.header.id, TRUE, m.header.opcode, FALSE, FALSE,
                     m.header.rd, FALSE, 0, 0, 0, 0, 0, 0>>), <<>>, <<>>)

fmt_err_resp(m) ==
    Message(Header(<<m.header.id, TRUE, m.header.opcode, FALSE, FALSE,
                     m.header.rd, FALSE, 0, 1, 0, 0, 0, 0>>), <<>>, <<>>)

\* mutant: ra and z are copied from the query
refused_resp_echo_flags(m) ==
    Message(Header(<<m.header.id, TRUE, m.header.opcode, FALSE, FALSE,
                     m.header.rd, m.header.ra, m.header.z, 5, 0, 0, 0, 0>>),
            <<>>, <<>>)

refused_resp(m) ==
    Message(Header(<<m.header.id, TRUE, m.header.opcode, FALSE, FALSE,
                     m.header.rd, FALSE, 0, 5, 0, 0, 0, 0>>), <<>>, <<>>)

no_recs_resp(m) ==
    Message(Header(<<m.header.id, TRUE, m.header.opcode, FALSE, FALSE,
                     m.header.rd, FALSE, 0, 0, 0, 0, 0, 0>>), <<>>, <<>>)

IsDecimal(s) == s # <<>> /\ \A i \in 1..Len(s) : s[i] \in 48..57

Decimal(s) == FromDigits([i \in 1..Len(s) |-> s[i] - 48], 10)

\* mutant: the four numbers in host byte order, last first
inet_aton_reversed(host) ==
    LET parts == SplitDots(host, <<>>)
    IN  IF Len(parts) = 4
           /\ \A i \in 1..4 : IsDecimal(parts[i]) /\ Decimal(parts[i]) < 256
        THEN [ok |-> TRUE, raw |-> [i \in 1..4 |-> Decimal(parts[5 - i])]]
        ELSE [ok |-> FALSE, raw |-> <<>>]

\* socket.inet_aton on the dotted quad the socket layer gives as client[0]:
\* [ok, raw], the four numbers in the order written
inet_aton(host) ==
    LET parts == SplitDots(host, <<>>)
    IN  IF Len(parts) = 4
           /\ \A i \in 1..4 : IsDecimal(parts[i]) /\ Decimal(parts[i]) < 256
        THEN [ok |-> TRUE, raw |-> [i \in 1..4 |-> Decimal(parts[i])]]
        ELSE [ok |-> FALSE, raw |-> <<>>]

\* mutant: qdcount is copied from the query
client_ip_resp_echo_qdcount(m, cl) ==
    Message(Header(<<m.header.id, TRUE, m.header.opcode, TRUE, FALSE,
                     m.header.rd, FALSE, 0, 0, m.header.qdcount, 1, 0, 0>>),
            <<>>,
            <<ResourceRecord(m.questions[1].rawqname, 1, 1, 1, 4,
                             inet_aton(cl.host).raw)>>)

\* mutant: the address of the previous datagram's client is used
client_ip_resp_previous_client(m, cl) ==
    Message(Header(<<m.header.id, TRUE, m.header.opcode, TRUE, FALSE,
                     m.header.rd, FALSE, 0, 0, 0, 1, 0, 0>>),
            <<>>,
            <<ResourceRecord(m.questions[1].rawqname, 1, 1, 1, 4,
                             inet_aton(IF log = <<>> THEN cl.host
                                       ELSE log[Len(log)].client.host).raw)>>)

client_ip_resp(m, cl) ==
    Message(Header(<<m.header.id, TRUE, m.header.opcode, TRUE, FALSE,
                     m.header.rd, FALSE, 0, 0, 0, 1, 0, 0>>),
            <<>>,
            <<ResourceRecord(m.questions[1].rawqname, 1, 1, 1, 4,
                             inet_aton(cl.host).raw)>>)

----------------------------------------------------------------------------
(* handle: the if/elif chain and the serialisation of the response         *)

\* b'my.ip4.live.'
MyName == <<109, 121, 46, 105, 112, 52, 46, 108, 105, 118, 101, 46>>

Chosen(v, r) == [ok |-> TRUE, variant |-> v, resp |-> r]
Raised == [ok |-> FALSE, variant |-> "none", resp |-> NoMessage]

\* mutant: tc is tested before qr and opcode
select_resp_tc_first(m, cl) ==
    IF m.header.tc THEN Chosen("fmt_err", fmt_err_resp(m))
    ELSE IF m.header.qr \/ m.header.opcode # 0 THEN Chosen("not_impl", not_impl_resp(m))
    ELSE IF m.header.qdcount < 1 THEN Chosen("not_impl", not_impl_resp(m))
    ELSE IF Len(m.questions) = 0 THEN Raised
    ELSE IF m.questions[1].qtype \notin {1, 255}
         THEN Chosen("no_recs", no_recs_resp(m))
    ELSE IF m.questions[1].qclass # 1 THEN Chosen("not_impl", not_impl_resp(m))
    ELSE IF m.questions[1].qname # MyName THEN Chosen("refused", refused_resp(m))
    ELSE IF ~inet_aton(cl.host).ok THEN Raised
    ELSE Chosen("client_ip", client_ip_resp(m, cl))

\* mutant: the first question is read before qdcount is tested
select_resp_question_first(m, cl) ==
    IF m.header.qr \/ m.header.opcode # 0 THEN Chosen("not_impl", not_impl_resp(m))
    ELSE IF m.header.tc THEN Chosen("fmt_err", fmt_err_resp(m))
    ELSE IF Len(m.questions) = 0 THEN Raised
    ELSE IF m.questions[1].qtype \notin {1, 255}
         THEN Chosen("no_recs", no_recs_resp(m))
    ELSE IF m.header.qdcount < 1 THEN Chosen("not_impl", not_impl_resp(m))
    ELSE IF m.questions[1].qclass # 1 THEN Chosen("not_impl", not_impl_resp(m))
    ELSE IF m.questions[1].qname # MyName THEN Chosen("refused", refused_resp(m))
    ELSE IF ~inet_aton(cl.host).ok THEN Raised
    ELSE Chosen("client_ip", client_ip_resp(m, cl))

\* lines 177-190: [ok, variant, resp]; ok is FALSE when the chain raises
\* (IndexError on msg.questions[0], OSError in inet_aton)
select_resp(m, cl) ==
    IF m.header.qr \/ m.header.opcode # 0 THEN Chosen("not_impl", not_impl_resp(m))
    ELSE IF m.header.tc THEN Chosen("fmt_err", fmt_err_resp(m))
    ELSE IF m.header.qdcount < 1 THEN Chosen("not_impl", not_impl_resp(m))
    ELSE IF Len(m.questions) = 0 THEN Raised
    ELSE IF m.questions[1].qtype \notin {1, 255}
         THEN Chosen("no_recs", no_recs_resp(m))
    ELSE IF m.questions[1].qclass # 1 THEN Chosen("not_impl", not_impl_resp(m))
    ELSE IF m.questions[1].qname # MyName THEN Chosen("refused", refused_resp(m))
    ELSE IF ~inet_aton(cl.host).ok THEN Raised
    ELSE Chosen("client_ip", client_ip_resp(m, cl))

\* lines 192-200: [ok, raw]
encode_resp(r) ==
    LET h == writebits(WriteHeaderFmt, HeaderTuple(r.header))
    IN  IF ~h.ok THEN [ok |-> FALSE, raw |-> <<>>]
        ELSE IF Len(r.answers) = 0 THEN h
        ELSE LET a == r.answers[1]
                 n == writebytes(FmtNB(Len(a.rawname)), a.rawname)
                 d == writebytes(FmtHHIH4B,
                                 <<a.type, a.class_, a.ttl, a.rdlength>> \o a.rdata)
             IN  IF ~n.ok \/ ~d.ok THEN [ok |-> FALSE, raw |-> <<>>]
                 ELSE [ok |-> TRUE, raw |-> h.raw \o n.raw \o d.raw]

----------------------------------------------------------------------------
(* The datagrams and clients the socket delivers                           *)

MaxQuestions == 2   \* questions present in a generated datagram
MaxTrailing == 1    \* bytes after the last question of a generated datagram
MaxRequests == 3    \* requests handled in a run of SpecSeq

Prefix(s, n) == SubSeq(s, 1, n)

\* a name on the wire: each label behind its length byte, then the zero byte
WireName(labels) ==
    Flatten([i \in 1..Len(labels) |-> <<Len(labels[i])>> \o labels[i]]) \o <<0>>

WireQuestion(labels, qtype, qclass) ==
    WireName(labels) \o <<qtype \div 256, qtype % 256, qclass \div 256, qclass % 256>>

Bit(b) == IF b THEN 1 ELSE 0

\* the 12 header bytes of RFC 1035 section 4.1.1
WireHeader(h) ==
    <<h.id \div 256, h.id % 256,
      128 * Bit(h.qr) + 8 * h.opcode + 4 * Bit(h.aa) + 2 * Bit(h.tc) + Bit(h.rd),
      128 * Bit(h.ra) + 16 * h.z + h.rcode,
      h.qdcount \div 256, h.qdcount % 256, h.ancount \div 256, h.ancount % 256,
      h.nscount \div 256, h.nscount % 256, h.arcount \div 256, h.arcount % 256>>

LabelMy == <<109, 121>>
LabelIp4 == <<105, 112, 52>>
LabelLive == <<108, 105, 118, 101>>

NameSet ==
    { <<LabelMy, LabelIp4, LabelLive>>,                 \* my.ip4.live.
      <<<<77, 89>>, LabelIp4, LabelLive>>,              \* MY.ip4.live.
      <<LabelMy \o <<46>> \o LabelIp4 \o <<46>> \o LabelLive>>,  \* one label
      <<LabelMy, LabelIp4>>,                            \* my.ip4.
      <<>> }                                            \* the root

FirstQuestions ==
    { WireQuestion(n, t, c) : n \in NameSet, t \in {1, 255, 28}, c \in {1, 3} }
    \cup { WireQuestion(<<LabelMy, LabelIp4, LabelLive>>, 257, 1),
           WireQuestion(<<LabelMy, LabelIp4, LabelLive>>, 1, 257) }

OtherQuestions ==
    { WireQuestion(<<LabelLive>>, 1, 1), WireQuestion(<<<<120>>>>, 16, 3) }

\* the other header fields of a query: plain, or every one of them set
Extras ==
    { [aa |-> FALSE, ra |-> FALSE, z |-> 0, rcode |-> 0, ancount |-> 0,
       nscount |-> 0, arcount |-> 0],
      [aa |-> TRUE, ra |-> TRUE, z |-> 5, rcode |-> 3, ancount |-> 1,
       nscount |-> 2, arcount |-> 259] }

QueryHeader(id, qr, opcode, tc, rd, x, qdcount) ==
    [id |-> id, qr |-> qr, opcode |-> opcode, aa |-> x.aa, tc |-> tc, rd |-> rd,
     ra |-> x.ra, z |-> x.z, rcode |-> x.rcode, qdcount |-> qdcount,
     ancount |-> x.ancount, nscount |-> x.nscount, arcount |-> x.arcount]

PlainExtras == CHOOSE x \in Extras : ~x.ra

\* well-formed queries with no or one question, over every header
SingleDatagrams ==
    { WireHeader(QueryHeader(id, qr, op, tc, rd, x, IF q = <<>> THEN 0 ELSE 1)) \o q :
        id \in {4660, 65535}, qr \in BOOLEAN, op \in {0, 1, 15}, tc \in BOOLEAN,
        rd \in BOOLEAN, x \in Extras, q \in FirstQuestions \cup {<<>>} }

RECURSIVE SeqsUpTo(_, _)
SeqsUpTo(S, n) ==
    IF n = 0 THEN {<<>>}
    ELSE LET shorter == SeqsUpTo(S, n - 1)
         IN  shorter \cup { Append(t, x) : t \in shorter, x \in S }

\* queries with several questions, with a question count that differs from
\* the questions present, with trailing bytes, and cut at every length
FramingBases ==
    { WireHeader(QueryHeader(4660, f[1], 0, f[2], TRUE, PlainExtras, n))
        \o q \o Flatten(t) \o [i \in 1..k |-> 192] :
        f \in {<<FALSE, FALSE>>, <<TRUE, FALSE>>, <<FALSE, TRUE>>},
        n \in 0..(MaxQuestions + 1),
        q \in { WireQuestion(<<LabelMy, LabelIp4, LabelLive>>, 1, 1),
                WireQuestion(<<LabelMy, LabelIp4>>, 255, 1) },
        t \in SeqsUpTo(OtherQuestions, MaxQuestions - 1),
        k \in 0..MaxTrailing }

FramingDatagrams == UNION { { Prefix(b, n) : n \in 0..Len(b) } : b \in FramingBases }

Datagrams == SingleDatagrams \cup FramingDatagrams

\* text of a number, and of an address, as the socket layer writes it
RECURSIVE DecimalText(_)
DecimalText(n) ==
    IF n < 10 THEN <<48 + n>> ELSE DecimalText(n \div 10) \o <<48 + (n % 10)>>

DottedQuad(a) ==
    DecimalText(a[1]) \o <<46>> \o DecimalText(a[2]) \o <<46>>
        \o DecimalText(a[3]) \o <<46>> \o DecimalText(a[4])

Addresses == { <<203, 0, 113, 7>>, <<127, 0, 0, 1>>, <<10, 255, 100, 9>> }

Clients == { [host |-> DottedQuad(a), port |-> 40000 + a[4]] : a \in Addresses }

DefaultClient == CHOOSE c \in Clients : c.port = 40007

\* what the socket delivers: every datagram from one client, and the
\* one-question queries without extras from every client
Requests ==
    { <<b, DefaultClient>> : b \in Datagrams }
    \cup { <<WireHeader(QueryHeader(4660, FALSE, 0, FALSE, rd, PlainExtras, 1)) \o q, c>> :
             rd \in BOOLEAN, q \in FirstQuestions, c \in Clients }

\* the requests of the runs that handle several datagrams
SeqRequests ==
    { <<Prefix(WireHeader(QueryHeader(id, qr, 0, FALSE, TRUE, PlainExtras, 1))
               \o WireQuestion(<<LabelMy, LabelIp4, LabelLive>>, 1, 1), n), c>> :
        id \in {4660}, qr \in BOOLEAN, n \in {0, 20, 29},
        c \in { DefaultClient, CHOOSE c \in Clients : c.port = 40001 } }

----------------------------------------------------------------------------
(* DNSCheckIPHandler.handle, one statement group per action                *)

Init ==
    /\ pc = "idle"
    /\ msg_buf = <<>>
    /\ client = NoClient
    /\ msg_io = 0
    /\ header = NoHeader
    /\ questions = <<>>
    /\ qcurr = 0
    /\ msg = NoMessage
    /\ variant = "none"
    /\ resp = NoMessage
    /\ resp_buf = <<>>
    /\ sent = <<>>
    /\ log = <<>>

\* the server waits in serve_forever for the next datagram
Waiting == pc = "idle"

\* the server calls handle with a datagram and its source (lines 169-174)
Receive(buf, cl) ==
    /\ Waiting
    /\ pc' = "parse_header"
    /\ msg_buf' = buf
    /\ client' = cl
    /\ msg_io' = 0
    /\ UNCHANGED <<header, questions, qcurr, msg, variant, resp, resp_buf, sent, log>>

\* parse_msg: the header and the empty question list (lines 57-59)
ParseHeader ==
    /\ pc = "parse_header"
    /\ LET r == readbits(ReadHeaderFmt, msg_buf, msg_io)
       IN  IF r.ok
           THEN /\ header' = Header(r.val)
                /\ questions' = <<>>
                /\ qcurr' = 0
                /\ msg_io' = r.pos
                /\ pc' = "parse_questions"
           ELSE /\ pc' = "raised"
                /\ UNCHANGED <<header, questions, qcurr, msg_io>>
    /\ UNCHANGED <<msg_buf, client, msg, variant, resp, resp_buf, sent, log>>

\* parse_msg: one iteration of the question loop (lines 60-62)
ParseQuestion ==
    /\ pc = "parse_questions"
    /\ qcurr < question_loop_count(header)
    /\ LET r == parse_question(msg_buf, msg_io)
       IN  IF r.ok
           THEN /\ questions' = Append(questions, r.question)
                /\ qcurr' = qcurr + 1
                /\ msg_io' = r.pos
                /\ pc' = "parse_questions"
           ELSE /\ pc' = "raised"
                /\ UNCHANGED <<questions, qcurr, msg_io>>
    /\ UNCHANGED <<msg_buf, client, header, msg, variant, resp, resp_buf, sent, log>>

\* parse_msg returns the Message (lines 63, 175)
ParseReturn ==
    /\ pc = "parse_questions"
    /\ qcurr >= question_loop_count(header)
    /\ msg' = Message(header, questions, <<>>)
    /\ pc' = "select"
    /\ UNCHANGED <<msg_buf, client, msg_io, header, questions, qcurr, variant,
                   resp, resp_buf, sent, log>>

\* the if/elif chain builds resp (lines 177-190)
Select ==
    /\ pc = "select"
    /\ LET r == select_resp(msg, client)
       IN  IF r.ok
           THEN /\ resp' = r.resp
                /\ variant' = r.variant
                /\ pc' = "encode"
           ELSE /\ pc' = "raised"
                /\ UNCHANGED <<resp, variant>>
    /\ UNCHANGED <<msg_buf, client, msg_io, header, questions, qcurr, msg,
                   resp_buf, sent, log>>

\* resp is serialised into resp_buf (lines 192-200)
Encode ==
    /\ pc = "encode"
    /\ LET r == encode_resp(resp)
       IN  IF r.ok
           THEN /\ resp_buf' = r.raw
                /\ pc' = "send"
           ELSE /\ pc' = "raised"
                /\ UNCHANGED resp_buf
    /\ UNCHANGED <<msg_buf, client, msg_io, header, questions, qcurr, msg, variant,
                   resp, sent, log>>

\* self.request[1].sendto(resp_buf, client), and handle returns (line 203)
Send ==
    /\ pc = "send"
    /\ sent' = Append(sent, [data |-> resp_buf, dest |-> client])
    /\ pc' = "returned"
    /\ UNCHANGED <<msg_buf, client, msg_io, header, questions, qcurr, msg, variant,
                   resp, resp_buf, log>>

\* the handler is done, by return or by an exception that left handle; the
\* server goes back to waiting, and the handler's locals are gone
Finish(keep) ==
    /\ pc \in {"returned", "raised"}
    /\ log' = IF keep
              THEN Append(log, [buf |-> msg_buf, client |-> client, sent |-> sent])
              ELSE log
    /\ pc' = "idle"
    /\ msg_buf' = <<>>
    /\ client' = NoClient
    /\ msg_io' = 0
    /\ header' = NoHeader
    /\ questions' = <<>>
    /\ qcurr' = 0
    /\ msg' = NoMessage
    /\ variant' = "none"
    /\ resp' = NoMessage
    /\ resp_buf' = <<>>
    /\ sent' = <<>>

Handle ==
    \/ ParseHeader
    \/ ParseQuestion
    \/ ParseReturn
    \/ Select
    \/ Encode
    \/ Send

Next ==
    \/ Waiting /\ \E r \in Requests : Receive(r[1], r[2])
    \/ Handle
    \/ Finish(FALSE)

Spec == Init /\ [][Next]_vars

\* runs of up to MaxRequests datagrams, with the history of their outcomes
NextSeq ==
    \/ Waiting /\ Len(log) < MaxRequests /\ \E r \in SeqRequests : Receive(r[1], r[2])
    \/ Handle
    \/ Finish(TRUE)

SpecSeq == Init /\ [][NextSeq]_vars

----------------------------------------------------------------------------
(* The header codec applied to arbitrary headers: a header is serialised   *)
(* as handle serialises resp.header, and the 12 bytes are parsed as        *)
(* parse_msg parses a datagram's header.                                   *)

HeaderInputs ==
    { Header(<<id, qr, op, aa, tc, rd, ra, z, rc, qd, an, ns, ar>>) :
        id \in {4660, 65535}, qr \in BOOLEAN, op \in {0, 5, 15}, aa \in BOOLEAN,
        tc \in BOOLEAN, rd \in BOOLEAN, ra \in BOOLEAN, z \in {0, 5},
        rc \in {0, 10}, qd \in {0, 258}, an \in {1, 65535}, ns \in {0, 772},
        ar \in {0, 65534} }

InitLoop ==
    /\ pc = "encode"
    /\ resp \in { Message(h, <<>>, <<>>) : h \in HeaderInputs }
    /\ msg_buf = <<>>
    /\ client = NoClient
    /\ msg_io = 0
    /\ header = NoHeader
    /\ questions = <<>>
    /\ qcurr = 0
    /\ msg = NoMessage
    /\ variant = "none"
    /\ resp_buf = <<>>
    /\ sent = <<>>
    /\ log = <<>>

\* the serialised bytes are given to the parser as a datagram
Loopback ==
    /\ pc = "send"
    /\ msg_buf' = resp_buf
    /\ msg_io' = 0
    /\ pc' = "parse_header"
    /\ UNCHANGED <<client, header, questions, qcurr, msg, variant, resp, resp_buf,
                   sent, log>>

NextLoop ==
    \/ Encode
    \/ Loopback
    \/ ParseHeader

SpecLoop == InitLoop /\ [][NextLoop]_vars

----------------------------------------------------------------------------
(* Vocabulary of the properties: the fields of a datagram read straight    *)
(* from its bytes (RFC 1035 section 4.1), without the model's codec.       *)

W16(buf, i) == 256 * buf[i] + buf[i + 1]

WireId(buf) == W16(buf, 1)
WireQr(buf) == buf[3] \div 128 = 1
WireOpcode(buf) == (buf[3] \div 8) % 16
WireAa(buf) == (buf[3] \div 4) % 2 = 1
WireTc(buf) == (buf[3] \div 2) % 2 = 1
WireRd(buf) == buf[3] % 2 = 1
WireRa(buf) == buf[4] \div 128 = 1
WireZ(buf) == (buf[4] \div 16) % 8
WireRcode(buf) == buf[4] % 16
WireQdcount(buf) == W16(buf, 5)
WireAncount(buf) == W16(buf, 7)
WireNscount(buf) == W16(buf, 9)
WireArcount(buf) == W16(buf, 11)

\* how the name that starts at index p ends: the index of its zero byte, or
\* the reason the buffer holds no such byte
RECURSIVE NameScan(_, _)
NameScan(buf, p) ==
    IF p > Len(buf) THEN [end |-> 0, cut |-> "terminator"]
    ELSE IF buf[p] = 0 THEN [end |-> p, cut |-> "none"]
    ELSE IF p + buf[p] > Len(buf) THEN [end |-> 0, cut |-> "label"]
    ELSE NameScan(buf, p + buf[p] + 1)

NameEnd(buf, p) == NameScan(buf, p).end

\* where the first of the n questions from index p on is cut, "none" when
\* all n are whole
RECURSIVE QuestionsCut(_, _, _)
QuestionsCut(buf, p, n) ==
    IF n = 0 THEN "none"
    ELSE LET s == NameScan(buf, p)
         IN  IF s.cut # "none" THEN s.cut
             ELSE IF s.end + 4 > Len(buf) THEN "fixed"
             ELSE QuestionsCut(buf, s.end + 5, n - 1)

\* the number of whole questions among the first n from index p on
RECURSIVE WholeQuestions(_, _, _)
WholeQuestions(buf, p, n) ==
    IF n = 0 \/ QuestionsCut(buf, p, 1) # "none" THEN 0
    ELSE 1 + WholeQuestions(buf, NameEnd(buf, p) + 5, n - 1)

\* "header", "terminator", "label", "fixed", or "none" for a datagram that
\* holds its header and every question the header declares
Cut(buf) ==
    IF Len(buf) < 12 THEN "header" ELSE QuestionsCut(buf, 13, WireQdcount(buf))

InHandler == pc # "idle"
Parsing == pc \in {"parse_header", "parse_questions"}
HasResp == pc \in {"encode", "send", "returned"}
HasRespBuf == pc \in {"send", "returned"}

\* the address whose text is the client's host
SourceOctets == CHOOSE a \in Addresses : DottedQuad(a) = client.host

\* type 1, class 1, ttl 1 on 32 bits, rdlength 4, as bytes
AnswerFixed == <<0, 1, 0, 1, 0, 0, 0, 1, 0, 4>>

----------------------------------------------------------------------------
(* Properties                                                              *)

ValidQuery(m) ==
    /\ ~m.header.qr /\ m.header.opcode = 0 /\ ~m.header.tc
    /\ m.header.qdcount >= 1 /\ Len(m.questions) >= 1
    /\ m.questions[1].qtype \in {1, 255}
    /\ m.questions[1].qclass = 1
    /\ m.questions[1].qname = MyName

\* C1: a decoded query with qr=false, opcode=0, tc=false, qdcount>=1, first
\* qtype in {1,255}, qclass=1 and name my.ip4.live. is answered, from any
\* client, with ancount=1, rcode=0, aa=true and one record of type 1, class 1,
\* ttl 1, rdlength 4 whose rdata is the client's address, first octet first;
\* the same holds of the bytes sent.
C1_ValidQueryAnswered ==
    ValidQuery(msg) =>
        /\ pc \in {"select", "encode", "send", "returned"}
        /\ HasResp =>
             /\ resp.header.ancount = 1 /\ resp.header.rcode = 0 /\ resp.header.aa
             /\ Len(resp.answers) = 1
             /\ resp.answers[1].type = 1 /\ resp.answers[1].class_ = 1
             /\ resp.answers[1].ttl = 1 /\ resp.answers[1].rdlength = 4
             /\ resp.answers[1].rdata = SourceOctets
        /\ pc = "returned" =>
             LET d == sent[1].data
             IN  /\ WireAncount(d) = 1 /\ WireRcode(d) = 0 /\ WireAa(d)
                 /\ SubSeq(d, Len(d) - 13, Len(d)) = AnswerFixed \o SourceOctets

C1_Witness ==
    /\ pc = "returned" /\ ValidQuery(msg)
    /\ msg.questions[1].qtype = 255
    /\ client.host = DottedQuad(<<10, 255, 100, 9>>)

\* C2: in every response, of every variant, id and rd are those of the
\* query, qr is true, ra is false and z is 0, in resp and in the bytes
\* written, also when the query had ra set or z non-zero.
C2_HeaderEcho ==
    /\ HasResp =>
         /\ resp.header.id = WireId(msg_buf) /\ resp.header.rd = WireRd(msg_buf)
         /\ resp.header.id = msg.header.id /\ resp.header.rd = msg.header.rd
         /\ resp.header.qr /\ ~resp.header.ra /\ resp.header.z = 0
    /\ HasRespBuf =>
         /\ WireId(resp_buf) = WireId(msg_buf) /\ WireRd(resp_buf) = WireRd(msg_buf)
         /\ WireQr(resp_buf) /\ ~WireRa(resp_buf) /\ WireZ(resp_buf) = 0
    /\ pc = "returned" => sent = <<[data |-> resp_buf, dest |-> client]>>

C2_Witness ==
    /\ pc = "returned" /\ variant = "refused"
    /\ WireRa(msg_buf) /\ WireZ(msg_buf) = 5 /\ WireRd(msg_buf)
    /\ WireId(msg_buf) = 65535

\* the row of the decision table a decoded query falls in
TableRow(m) ==
    IF m.header.qr \/ m.header.opcode # 0 THEN 1
    ELSE IF m.header.tc THEN 2
    ELSE IF m.header.qdcount < 1 THEN 3
    ELSE IF ~(m.questions[1].qtype = 1 \/ m.questions[1].qtype = 255) THEN 4
    ELSE IF m.questions[1].qclass # 1 THEN 5
    ELSE IF m.questions[1].qname # MyName THEN 6
    ELSE 7

RowVariant == <<"not_impl", "fmt_err", "not_impl", "no_recs", "not_impl",
                "refused", "client_ip">>
RowRcode == <<0, 1, 0, 0, 0, 5, 0>>
RowAncount == <<0, 0, 0, 0, 0, 0, 1>>

\* C3: the variant of the response is that of the first matching row, in the
\* order qr/opcode, tc, qdcount, qtype, qclass, name, else Answer, with the
\* row's rcode and ancount in resp and in the bytes written.
C3_FirstMatchingRow ==
    HasResp =>
        LET row == TableRow(msg)
        IN  /\ variant = RowVariant[row]
            /\ resp.header.rcode = RowRcode[row]
            /\ resp.header.ancount = RowAncount[row]
            /\ Len(resp.answers) = RowAncount[row]
            /\ HasRespBuf => /\ WireRcode(resp_buf) = RowRcode[row]
                             /\ WireAncount(resp_buf) = RowAncount[row]

C3_Witness ==
    /\ pc = "returned"
    /\ msg.header.qr /\ msg.header.tc /\ msg.header.qdcount = 1
    /\ msg.questions[1].qtype = 28 /\ msg.questions[1].qname # MyName
    /\ WireRcode(sent[1].data) = 0

\* C4: a datagram cut inside the header, inside a label, before a name's
\* zero byte or before the 4 bytes of qtype and qclass never gets past
\* parsing: no response is built, no byte is written, nothing is sent.
C4_TruncatedDropped ==
    (InHandler /\ Cut(msg_buf) \in {"header", "label", "terminator", "fixed"}) =>
        /\ Parsing \/ pc = "raised"
        /\ variant = "none" /\ resp = NoMessage /\ resp_buf = <<>> /\ sent = <<>>
        /\ Cut(msg_buf) = "header" => pc \in {"parse_header", "raised"}

C4_Witness ==
    /\ pc = "raised" /\ Cut(msg_buf) = "label"
    /\ ~WireQr(msg_buf) /\ ~WireTc(msg_buf) /\ qcurr = 0

\* C5: a datagram that holds its header and the questions it declares is
\* answered whatever its fields: nothing raises, and exactly one datagram,
\* the response bytes, is sent to the source.
C5_DecodedAnswered ==
    (InHandler /\ Cut(msg_buf) = "none") =>
        /\ pc # "raised"
        /\ pc = "returned" =>
             /\ Len(sent) = 1
             /\ sent[1].dest = client
             /\ sent[1].data = resp_buf
             /\ Len(resp_buf) >= 12
        /\ pc # "returned" => sent = <<>>

C5_Witness ==
    /\ pc = "returned" /\ Len(sent) = 1
    /\ WireQdcount(msg_buf) = 0 /\ WireOpcode(msg_buf) = 0
    /\ ~WireQr(msg_buf) /\ ~WireTc(msg_buf)

\* C6: a response has no question section: qdcount, nscount and arcount are
\* 0 and tc is false; its bytes are the 12 header bytes when ancount is 0,
\* and the header, one owner name and 14 bytes when ancount is 1; an answer
\* is present iff ancount is 1 iff aa is true iff the variant is Answer.
C6_ResponseShape ==
    /\ HasResp =>
         /\ resp.questions = <<>>
         /\ resp.header.qdcount = 0 /\ resp.header.nscount = 0
         /\ resp.header.arcount = 0 /\ ~resp.header.tc
         /\ resp.header.ancount \in {0, 1}
         /\ (Len(resp.answers) = 1) = (resp.header.ancount = 1)
         /\ resp.header.aa = (resp.header.ancount = 1)
         /\ (variant = "client_ip") = (resp.header.ancount = 1)
    /\ HasRespBuf =>
         /\ WireQdcount(resp_buf) = 0 /\ WireNscount(resp_buf) = 0
         /\ WireArcount(resp_buf) = 0 /\ ~WireTc(resp_buf)
         /\ WireAncount(resp_buf) = resp.header.ancount
         /\ WireAa(resp_buf) = (WireAncount(resp_buf) = 1)
         /\ WireAncount(resp_buf) = 0 => Len(resp_buf) = 12
         /\ WireAncount(resp_buf) = 1 =>
              /\ NameEnd(resp_buf, 13) # 0
              /\ Len(resp_buf) = NameEnd(resp_buf, 13) + 14

C6_Witness ==
    /\ pc = "returned" /\ variant = "client_ip"
    /\ WireArcount(msg_buf) = 259 /\ WireQdcount(msg_buf) = 1
    /\ Len(sent[1].data) > 12

\* C7: the owner name of the answer is the bytes of the first question's
\* name as received, length bytes, labels and zero byte, and the response
\* is the header, that name, type, class, ttl, rdlength and rdata, with
\* nothing of a later question or of trailing bytes.
C7_OwnerNameVerbatim ==
    (HasRespBuf /\ variant = "client_ip") =>
        /\ NameEnd(msg_buf, 13) # 0
        /\ resp.answers[1].rawname = SubSeq(msg_buf, 13, NameEnd(msg_buf, 13))
        /\ resp_buf = SubSeq(resp_buf, 1, 12)
                        \o SubSeq(msg_buf, 13, NameEnd(msg_buf, 13))
                        \o AnswerFixed \o SourceOctets

C7_Witness ==
    /\ pc = "returned" /\ variant = "client_ip"
    /\ WireQdcount(msg_buf) = 2
    /\ Len(msg_buf) > NameEnd(msg_buf, 13) + 4 + 10
    /\ Len(sent[1].data) = NameEnd(msg_buf, 13) + 14

\* C8: a header with every field within its width, serialised and parsed
\* again, gives the same 13 values in the order id, qr, opcode, aa, tc, rd,
\* ra, z, rcode, qdcount, ancount, nscount, arcount, through 12 bytes laid
\* out as RFC 1035 lays them out.
C8_HeaderRoundTrip ==
    /\ pc = "send" => Len(resp_buf) = 12 /\ resp_buf = WireHeader(resp.header)
    /\ pc = "parse_questions" =>
         /\ msg_buf = resp_buf /\ msg_io = 12
         /\ header = resp.header
         /\ HeaderTuple(header) =
              <<resp.header.id, resp.header.qr, resp.header.opcode, resp.header.aa,
                resp.header.tc, resp.header.rd, resp.header.ra, resp.header.z,
                resp.header.rcode, resp.header.qdcount, resp.header.ancount,
                resp.header.nscount, resp.header.arcount>>
    /\ pc # "raised"

C8_Witness ==
    /\ pc = "parse_questions"
    /\ header.id = 4660 /\ header.opcode = 5 /\ header.z = 5 /\ header.rcode = 10
    /\ header.qr /\ ~header.aa /\ header.tc /\ ~header.rd /\ header.ra
    /\ header.qdcount = 258 /\ header.ancount = 65535 /\ header.nscount = 772
    /\ header.arcount = 65534

C10_AllQuestionsDecodedFirst ==
    /\ (pc \in {"select", "encode", "send", "returned"}) =>
         /\ Len(msg.questions) = WireQdcount(msg_buf)
         /\ qcurr = WireQdcount(msg_buf)
         /\ WholeQuestions(msg_buf, 13, WireQdcount(msg_buf)) = WireQdcount(msg_buf)
    /\ (InHandler /\ Len(msg_buf) >= 12
          /\ WholeQuestions(msg_buf, 13, WireQdcount(msg_buf)) < WireQdcount(msg_buf)) =>
         /\ Parsing \/ pc = "raised"
         /\ variant = "none" /\ sent = <<>>
    /\ variant # "none" => HasResp

C10_Witness ==
    /\ pc = "raised" /\ Len(msg_buf) >= 12 /\ WireQr(msg_buf)
    /\ WireQdcount(msg_buf) = 2
    /\ WholeQuestions(msg_buf, 13, 2) = 1
    /\ qcurr = 1 /\ questions[1].qname = MyName /\ questions[1].qtype = 1

====
